---- MODULE Spec2Model ----
(***************************************************************************)
(* Model of the sequential conversion queue (client/src/lib/               *)
(* conversionQueue.ts), of the tracer wrapper it drives (converter.ts,     *)
(* convertImageFile) and of the colour editor (SVGColorEditor.tsx).        *)
(*                                                                         *)
(* JavaScript runs every handler to its next `await` without interleaving, *)
(* so one action is one such run: a public method together with the part   *)
(* of process() it executes synchronously, or the resumption of a          *)
(* suspended process() after the tracer promise or the delay timer         *)
(* settles.                                                                *)
(***************************************************************************)
EXTENDS Integers, Sequences, FiniteSets, TLC

\* ---------------------------------------------------------------- bounds
MaxTasks    == 3   \* QueueItems created over a behaviour
MaxEnqueues == 2   \* enqueue() calls over a behaviour
MaxClears   == 1   \* clear() calls over a behaviour

VARIABLES
    queue,          \* ConversionQueue.queue: pending QueueItems (task ids)
    isProcessing,   \* ConversionQueue.isProcessing
    completed,      \* ConversionQueue.completed
    total,          \* ConversionQueue.total
    currentFile,    \* ConversionQueue.currentFile (NoFile = undefined)
    stateCallback,  \* "none" until onStateChange() registered a callback,
                    \* then what that callback does when it is called:
                    \* "returns" or "raises"
    params,         \* ConversionQueue.params
    loops,          \* suspended activations of process(), one record each
    tasks,          \* tasks[id]: the params in effect when QueueItem id was
                    \* enqueued and the number of the enqueue() call
    ev,             \* ev[id]: the callbacks invoked on task id, in order
    notified,       \* QueueStates delivered to stateCallback by the last
                    \* handler that delivered any
    lastDelivered,  \* the QueueState delivered last before that handler
    cleared,        \* tasks dropped from the pending queue by clear()
    survivors,      \* tasks that were in flight when clear() ran
    calls,          \* number of enqueue() and clear() calls so far
    starts,         \* the dequeues of process(), in order: the item, the
                    \* items that had received onComplete or onError by
                    \* then, where the loop came from and whether the
                    \* tracer call of the item was made
    svgContent,     \* SVGColorEditor: the svgContent prop
    svgElement,     \* SVGColorEditor: svgElementRef.current, the live document
    colors,         \* SVGColorEditor: the palette (ColorInfo[])
    selectedColor,  \* SVGColorEditor: selectedColor
    currentSVG,     \* SVGColorEditor: currentSVG, the last serialization
    recent,         \* the arguments of the last changeColor calls made in a
                    \* row with the same arguments, and their changedCounts
    trip            \* the last changeColor(A, B), the numbers of elements
                    \* carrying A and B before it and, once changeColor(B, A)
                    \* followed it, the number carrying A after that
VARIABLES
    colorInput,     \* normalizeColor: the string it is first applied to
    normalized      \* the values returned by normalizeColor applied to
                    \* colorInput, then to its own result, and so on
VARIABLES
    results,        \* ConversionResultsEnhanced: the results prop
    editedSVGs,     \* ConversionResultsEnhanced: editedSVGs, by result id
    bulkFromColor,  \* ConversionResultsEnhanced: bulkFromColor
    bulkToColor,    \* ConversionResultsEnhanced: bulkToColor
    toasts          \* the toasts shown by applyBulkColorChange, in order
VARIABLES
    pathSegs,       \* the commands the path data was written from
    pathData,       \* parseSVGPath: its argument, the d attribute
    pathStage,      \* "input", then "parsed", then "emitted"
    pathCommands,   \* the value parseSVGPath returned
    pdfCommands     \* the value pathCommandsToPDF returned, one entry for
                    \* each line of the string
VARIABLES
    exportContent,   \* ExportOptions: the svgContent prop
    selectedFormats, \* ExportOptions: selectedFormats
    isExporting,     \* ExportOptions: isExporting
    exportRun,       \* the exportAll() call that waits for its 500 ms
                     \* timer: the formats left and the number selected
    downloads,       \* the files handed to the browser for download
    exportToasts     \* the toasts shown by the export functions
VARIABLES
    uploadedFiles,   \* Tool: uploadedFiles, the ids of the files
    toolResults      \* Tool: results, the id and status of each entry

queueVars  == <<queue, isProcessing, completed, total, currentFile,
                stateCallback, params, loops, tasks, ev, notified,
                lastDelivered, cleared, survivors, calls, starts>>
editorVars == <<svgContent, svgElement, colors, selectedColor, currentSVG,
                recent, trip>>
colorVars  == <<colorInput, normalized>>
batchVars  == <<results, editedSVGs, bulkFromColor, bulkToColor, toasts>>
pathVars   == <<pathSegs, pathData, pathStage, pathCommands, pdfCommands>>
exportVars == <<exportContent, selectedFormats, isExporting, exportRun,
                downloads, exportToasts>>
toolVars   == <<uploadedFiles, toolResults>>
libVars    == <<colorVars, batchVars, pathVars, exportVars, toolVars>>
vars       == <<queue, isProcessing, completed, total, currentFile,
                stateCallback, params, loops, tasks, ev, notified,
                lastDelivered, cleared, survivors, calls, starts,
                svgContent, svgElement, colors, selectedColor, currentSVG,
                recent, trip, colorInput, normalized,
                results, editedSVGs, bulkFromColor, bulkToColor, toasts,
                pathSegs, pathData, pathStage, pathCommands, pdfCommands,
                exportContent, selectedFormats, isExporting, exportRun,
                downloads, exportToasts, uploadedFiles, toolResults>>

\* ------------------------------------------------------- queue: constants
NoFile  == 0                       \* currentFile === undefined
NoError == "none"                  \* ConversionResult.error absent
NoNote  == [isProcessing |-> FALSE, completed |-> -1, total |-> -1,
            currentFile |-> NoFile]   \* nothing delivered yet

\* DEFAULT_PARAMS and one other ConversionParams value
DEFAULT_PARAMS == "default"
ParamValues    == {"default", "custom"}

\* What the image pipeline under convertImageFile does with a file.
TraceOutcomes == {"traced", "failed"}

\* The calls process() makes on a QueueItem.  The callbacks are the caller's
\* code: each call returns or raises an exception.  ThrowProfiles are the
\* behaviours considered for one item: none of its calls raises, or all its
\* calls at one call point do.
CallPoints    == {"onProgress10", "onProgress100", "onComplete", "onError"}
ThrowProfiles == {{}} \cup {{c} : c \in CallPoints}

Range(seq) == {seq[i] : i \in 1..Len(seq)}

NoLoop == [pc |-> "none", item |-> NoFile, params |-> DEFAULT_PARAMS]

\* ------------------------------------------------- queue: pure operators
\* convertImageFile: every failure of the pipeline is caught and returned
\* as a result carrying `error`; the promise never rejects.
convertImageFile(outcome) ==
    IF outcome = "traced"
    THEN [svg |-> "svg", error |-> NoError]
    ELSE [svg |-> "",    error |-> "Failed to load image"]

\* getState(), on the record m of the queue object's fields
getState(m) ==
    [isProcessing |-> m.isProcessing, completed |-> m.completed,
     total |-> m.total, currentFile |-> m.currentFile]

\* notifyStateChange(): the callback is called with the state; it is the
\* caller's code and raises an exception when m.stateCallback = "raises".
notifyStateChange(m) ==
    IF m.stateCallback # "none"
    THEN [m EXCEPT !.notified = Append(@, getState(m))]
    ELSE m

\* item.<callback>(...): the call is made (and logged); Throws tells
\* whether it raises.
Invoke(m, item, point) == [m EXCEPT !.ev[item] = Append(@, point)]
Throws(m, item, point) == point \in m.throws[item]

RECURSIVE Drain(_)
RECURSIVE Catch(_, _)

\* process(), lines 114-118: the catch block, then back to the loop test.
\* An exception raised by onError or by the state callback here rejects
\* process(): the activation ends with isProcessing still true.
Catch(m, item) ==
    LET m1 == Invoke(m, item, "onError")
    IN  IF Throws(m, item, "onError")
        THEN [m1 EXCEPT !.loop = [NoLoop EXCEPT !.pc = "dead"]]
        ELSE LET m2 == notifyStateChange([m1 EXCEPT !.completed = @ + 1])
             IN  IF m.stateCallback = "raises"
                 THEN [m2 EXCEPT !.loop = [NoLoop EXCEPT !.pc = "dead"]]
                 ELSE Drain([m2 EXCEPT !.loop.pc = "caught"])

\* process(), lines 91-100 and 121-123: the loop test, the dequeue and the
\* tracer call, up to the await; or the exit of the loop.  The state
\* callback of line 94 is called outside the try block: if it raises,
\* process() is rejected.
Drain(m) ==
    IF Len(m.queue) > 0
    THEN LET item == Head(m.queue)
             m0   == [m EXCEPT !.starts = Append(@,
                        [item   |-> item,
                         done   |-> {i \in 1..Len(m.ev) :
                                       \E k \in 1..Len(m.ev[i]) :
                                          m.ev[i][k] \in {"onComplete", "onError"}},
                         from   |-> m.loop.pc,
                         traced |-> /\ m.stateCallback # "raises"
                                    /\ ~Throws(m, item, "onProgress10")])]
             m1   == notifyStateChange(
                        [m0 EXCEPT !.queue = Tail(@), !.currentFile = item])
             m2   == Invoke(m1, item, "onProgress10")
         IN  IF m.stateCallback = "raises"
             THEN [m1 EXCEPT !.loop = [NoLoop EXCEPT !.pc = "dead"]]
             ELSE IF Throws(m, item, "onProgress10")
             THEN Catch(m2, item)
             ELSE [m2 EXCEPT !.loop = [pc |-> "tracing", item |-> item,
                                       params |-> m.params]]
    ELSE notifyStateChange(
             [m EXCEPT !.isProcessing = FALSE, !.currentFile = NoFile,
                       !.loop = [NoLoop EXCEPT !.pc = "done"]])

\* process() without the isProcessing test of its guard
processUnguarded(m) ==
    IF Len(m.queue) = 0
    THEN [m EXCEPT !.loop = NoLoop]
    ELSE LET m1 == notifyStateChange([m EXCEPT !.isProcessing = TRUE])
         IN  IF m.stateCallback = "raises"
             THEN [m1 EXCEPT !.loop = [NoLoop EXCEPT !.pc = "dead"]]
             ELSE Drain(m1)

\* process(), lines 83-89: the guard, then the start of a drain loop
process(m) ==
    IF m.isProcessing \/ Len(m.queue) = 0
    THEN [m EXCEPT !.loop = NoLoop]
    ELSE LET m1 == notifyStateChange([m EXCEPT !.isProcessing = TRUE])
         IN  IF m.stateCallback = "raises"
             THEN [m1 EXCEPT !.loop = [NoLoop EXCEPT !.pc = "dead"]]
             ELSE Drain(m1)

\* process(), lines 109-113: the end of the try block, up to the delay; an
\* exception of the state callback is caught by the catch block
AfterTry(m, item) ==
    LET m1 == notifyStateChange([m EXCEPT !.completed = @ + 1])
    IN  IF m.stateCallback = "raises"
        THEN Catch(m1, item)
        ELSE [m1 EXCEPT !.loop = [pc |-> "delay", item |-> item,
                                  params |-> m.loop.params]]

\* the resumption with onComplete called before onProgress(100)
SettleCompleteFirst(m, item, result) ==
    IF result.error # NoError
    THEN LET m1 == Invoke(m, item, "onError")
         IN  IF Throws(m, item, "onError")
             THEN Catch(m1, item)
             ELSE AfterTry(m1, item)
    ELSE LET m1 == Invoke(m, item, "onComplete")
             m2 == Invoke(m1, item, "onProgress100")
         IN  IF Throws(m, item, "onComplete")
             THEN Catch(m1, item)
             ELSE IF Throws(m, item, "onProgress100")
                  THEN Catch(m2, item)
                  ELSE AfterTry(m2, item)

\* process(), lines 100-118: the resumption after the tracer promise settled
Settle(m, item, result) ==
    IF result.error # NoError
    THEN LET m1 == Invoke(m, item, "onError")
         IN  IF Throws(m, item, "onError")
             THEN Catch(m1, item)
             ELSE AfterTry(m1, item)
    ELSE LET m1 == Invoke(m, item, "onProgress100")
             m2 == Invoke(m1, item, "onComplete")
         IN  IF Throws(m, item, "onProgress100")
             THEN Catch(m1, item)
             ELSE IF Throws(m, item, "onComplete")
                  THEN Catch(m2, item)
                  ELSE AfterTry(m2, item)

\* enqueue() that puts the new items in front of the pending ones
enqueuePrepend(m, items) ==
    LET m1 == [m EXCEPT !.queue = items \o @]
        m2 == [m1 EXCEPT !.total = Len(m1.queue)]
        m3 == notifyStateChange(m2)
    IN  IF m.stateCallback = "raises" THEN m3 ELSE process(m3)

\* enqueue(...items), lines 62-67; when the state callback raises at line
\* 65 the exception leaves enqueue() before process() is called
enqueue(m, items) ==
    LET m1 == [m EXCEPT !.queue = @ \o items]
        m2 == [m1 EXCEPT !.total = Len(m1.queue)]
        m3 == notifyStateChange(m2)
    IN  IF m.stateCallback = "raises" THEN m3 ELSE process(m3)

\* clear() that resets the counters but leaves the pending tasks queued
clearKeepsQueue(m) ==
    notifyStateChange([m EXCEPT !.completed = 0, !.total = 0,
                                !.currentFile = NoFile])

\* clear(), lines 72-78
clear(m) ==
    notifyStateChange([m EXCEPT !.queue = <<>>, !.completed = 0,
                                !.total = 0, !.currentFile = NoFile])

\* ------------------------------------------------------- queue: actions
\* The queue object as a record, with the log of this handler empty, the
\* activation `loop` the handler runs in and the behaviour `throws` of the
\* items' callbacks during the handler.
Obj(loop, throws) ==
    [queue |-> queue, isProcessing |-> isProcessing, completed |-> completed,
     total |-> total, currentFile |-> currentFile,
     stateCallback |-> stateCallback, params |-> params,
     tasks |-> tasks, ev |-> ev, notified |-> <<>>, loop |-> loop,
     throws |-> throws, starts |-> starts]

Live(l) == l.pc \in {"tracing", "delay"}

\* Store the fields of m; `old` is the activation that ran (NoLoop if the
\* handler started from a public method).
Commit(m, old) ==
    /\ queue' = m.queue
    /\ isProcessing' = m.isProcessing
    /\ completed' = m.completed
    /\ total' = m.total
    /\ currentFile' = m.currentFile
    /\ ev' = m.ev
    /\ starts' = m.starts
    /\ notified' = IF m.notified = <<>> THEN notified ELSE m.notified
    /\ lastDelivered' = IF m.notified = <<>> \/ notified = <<>>
                        THEN lastDelivered
                        ELSE notified[Len(notified)]
    /\ loops' = (loops \ {old}) \cup (IF Live(m.loop) THEN {m.loop} ELSE {})

QueueInit ==
    /\ queue = <<>>
    /\ isProcessing = FALSE
    /\ completed = 0
    /\ total = 0
    /\ currentFile = NoFile
    /\ stateCallback = "none"
    /\ params = DEFAULT_PARAMS
    /\ loops = {}
    /\ tasks = <<>>
    /\ ev = <<>>
    /\ notified = <<>>
    /\ lastDelivered = NoNote
    /\ cleared = {}
    /\ survivors = {}
    /\ calls = [enqueue |-> 0, clear |-> 0]
    /\ starts = <<>>

\* onStateChange(callback)
OnStateChange(does) ==
    /\ stateCallback = "none"
    /\ stateCallback' = does
    /\ UNCHANGED <<queue, isProcessing, completed, total, currentFile, params,
                   loops, tasks, ev, notified, lastDelivered, cleared,
                   survivors, calls, starts>>

\* setParams(p)
SetParams(p) ==
    /\ params' = p
    /\ UNCHANGED <<queue, isProcessing, completed, total, currentFile,
                   stateCallback, loops, tasks, ev, notified, lastDelivered,
                   cleared, survivors, calls, starts>>

\* enqueue(...items) with n fresh QueueItems
Enqueue(n, throws) ==
    /\ calls.enqueue < MaxEnqueues
    /\ Len(tasks) + n <= MaxTasks
    /\ LET ids   == [i \in 1..n |-> Len(tasks) + i]
           made  == [i \in 1..n |-> [params |-> params,
                                      batch |-> calls.enqueue + 1]]
           m0    == [Obj(NoLoop, throws) EXCEPT !.tasks = @ \o made,
                                        !.ev = @ \o [i \in 1..n |-> <<>>]]
           m     == enqueue(m0, ids)
       IN  /\ Commit(m, NoLoop)
           /\ tasks' = m.tasks
    /\ calls' = [calls EXCEPT !.enqueue = @ + 1]
    /\ UNCHANGED <<stateCallback, params, cleared, survivors>>

\* clear()
Clear ==
    /\ calls.clear < MaxClears
    /\ Commit([clear(Obj(NoLoop, <<>>)) EXCEPT !.loop = NoLoop], NoLoop)
    /\ cleared' = cleared \cup Range(queue)
    /\ survivors' = survivors \cup {l.item : l \in {k \in loops : k.pc = "tracing"}}
    /\ calls' = [calls EXCEPT !.clear = @ + 1]
    /\ UNCHANGED <<stateCallback, params, tasks>>

\* The promise of convertImageFile(item.file, params) settles and the
\* activation l of process() resumes.
TraceSettled(l, outcome, throws) ==
    /\ l \in loops
    /\ l.pc = "tracing"
    /\ Commit(Settle(Obj(l, throws), l.item, convertImageFile(outcome)), l)
    /\ UNCHANGED <<stateCallback, params, tasks, cleared, survivors, calls>>

\* The 100 ms timer of line 113 fires and the activation l resumes at the
\* loop test.
TimerFired(l, throws) ==
    /\ l \in loops
    /\ l.pc = "delay"
    /\ Commit(Drain(Obj(l, throws)), l)
    /\ UNCHANGED <<stateCallback, params, tasks, cleared, survivors, calls>>

\* How the callbacks of every item behave during one handler that resumes
\* the item `cur` (NoFile if none) with `pending` behind it: the handler can
\* reach every call point of cur, and of a pending item the first call
\* only, unless that call raises.
Behaviours(cur, pending) ==
    {[i \in pending \cup {cur} |-> IF i = cur THEN p ELSE IF i \in t THEN {"onProgress10"} ELSE {}] :
        p \in (IF cur = NoFile THEN {{}} ELSE ThrowProfiles \ {{"onProgress10"}}),
        t \in SUBSET pending}

\* --------------------------------------------------- editor: strings
\* A JavaScript string is the sequence of its characters; the empty
\* sequence is the empty string, and stands for a missing attribute too
\* (getAttribute returns null): the code tests both with `!fill`.
Str_FF0000   == <<"#", "F", "F", "0", "0", "0", "0">>
Str_ff0000   == <<"#", "f", "f", "0", "0", "0", "0">>
Str_0000FF   == <<"#", "0", "0", "0", "0", "F", "F">>
Str_000000   == <<"#", "0", "0", "0", "0", "0", "0">>
Str_none     == <<"n", "o", "n", "e">>
Str_styleRed == <<"s", "t", "r", "o", "k", "e", ":", "n", "o", "n", "e", ";", "f", "i", "l", "l", ":", " ", "#", "f", "f", "0", "0", "0", "0">>
Str_fillKey  == <<"f", "i", "l", "l", ":">>
Str_rgb      == <<"r", "g", "b">>

DigitChars == <<"0", "1", "2", "3", "4", "5", "6", "7", "8", "9">>
HexChars   == <<"0", "1", "2", "3", "4", "5", "6", "7", "8", "9",
                "a", "b", "c", "d", "e", "f">>
LowerChars == <<"a", "b", "c", "d", "e", "f", "g", "h", "i", "j", "k", "l", "m",
                "n", "o", "p", "q", "r", "s", "t", "u", "v", "w", "x", "y", "z">>
UpperChars == <<"A", "B", "C", "D", "E", "F", "G", "H", "I", "J", "K", "L", "M",
                "N", "O", "P", "Q", "R", "S", "T", "U", "V", "W", "X", "Y", "Z">>

IndexOf(chars, c) == CHOOSE i \in 1..Len(chars) : chars[i] = c

\* String.prototype.toUpperCase / toLowerCase
toUpperCase(str) ==
    [i \in 1..Len(str) |->
        IF str[i] \in Range(LowerChars)
        THEN UpperChars[IndexOf(LowerChars, str[i])] ELSE str[i]]
toLowerCase(str) ==
    [i \in 1..Len(str) |->
        IF str[i] \in Range(UpperChars)
        THEN LowerChars[IndexOf(UpperChars, str[i])] ELSE str[i]]

SetMin(S) == CHOOSE x \in S : \A y \in S : x <= y
SetMax(S) == CHOOSE x \in S : \A y \in S : y <= x

\* String.prototype.trim
trim(str) ==
    LET keep == {i \in 1..Len(str) : str[i] # " "}
    IN  IF keep = {} THEN <<>> ELSE SubSeq(str, SetMin(keep), SetMax(keep))

\* str has pat at position i
HasAt(str, i, pat) ==
    /\ i + Len(pat) - 1 <= Len(str)
    /\ SubSeq(str, i, i + Len(pat) - 1) = pat

\* the end of the longest run of characters of the set `chars` that starts
\* at position i (i - 1 if the run is empty)
RunEnd(str, i, chars) ==
    SetMax({j \in (i - 1)..Len(str) : \A k \in i..j : str[k] \in chars})

\* parseInt of a string of decimal digits
RECURSIVE parseInt(_)
parseInt(ds) ==
    IF ds = <<>> THEN 0
    ELSE 10 * parseInt(SubSeq(ds, 1, Len(ds) - 1))
         + (IndexOf(DigitChars, ds[Len(ds)]) - 1)

\* Number.prototype.toString(16)
RECURSIVE toString16(_)
toString16(n) ==
    IF n < 16 THEN <<HexChars[n + 1]>>
    ELSE Append(toString16(n \div 16), HexChars[(n % 16) + 1])

\* String.prototype.padStart(2, '0')
padStart2(str) == IF Len(str) < 2 THEN <<"0">> \o str ELSE str

\* color.match(/rgba?\((\d+),\s*(\d+),\s*(\d+)/) tried at position i:
\* [ok, r, g, b], the groups being the digit strings
RgbMatchAt(str, i) ==
    LET open == IF HasAt(str, i + 3, <<"a">>) THEN i + 4 ELSE i + 3
        r1 == open + 1
        r2 == RunEnd(str, r1, Range(DigitChars))
        g1 == RunEnd(str, r2 + 2, {" "}) + 1
        g2 == RunEnd(str, g1, Range(DigitChars))
        b1 == RunEnd(str, g2 + 2, {" "}) + 1
        b2 == RunEnd(str, b1, Range(DigitChars))
    IN  IF /\ HasAt(str, i, Str_rgb)
           /\ HasAt(str, open, <<"(">>)
           /\ r2 >= r1 /\ HasAt(str, r2 + 1, <<",">>)
           /\ g2 >= g1 /\ HasAt(str, g2 + 1, <<",">>)
           /\ b2 >= b1
        THEN [ok |-> TRUE, r |-> SubSeq(str, r1, r2), g |-> SubSeq(str, g1, g2),
              b |-> SubSeq(str, b1, b2)]
        ELSE [ok |-> FALSE, r |-> <<>>, g |-> <<>>, b |-> <<>>]

\* the leftmost match of the rgb pattern in str
RgbMatch(str) ==
    LET at == {i \in 1..Len(str) : RgbMatchAt(str, i).ok}
    IN  IF at = {} THEN RgbMatchAt(<<>>, 1) ELSE RgbMatchAt(str, SetMin(at))

\* Values that are not strings: Object and Object.prototype, which every
\* object literal inherits as `constructor` and `__proto__`, and the
\* TypeError raised by a method call on a value that lacks the method.
Object_constructor == <<"function Object">>
Object_prototype   == <<"Object.prototype">>
TypeError          == <<"TypeError">>

Str_constructor == <<"c", "o", "n", "s", "t", "r", "u", "c", "t", "o", "r">>
Str_proto       == <<"_", "_", "p", "r", "o", "t", "o", "_", "_">>

\* namedColors[name]: the own properties of the object literal, then the
\* properties it inherits
namedColors(name) ==
    CASE name = <<"b", "l", "a", "c", "k">> -> <<"#", "0", "0", "0", "0", "0", "0">>
      [] name = <<"w", "h", "i", "t", "e">> -> <<"#", "F", "F", "F", "F", "F", "F">>
      [] name = <<"r", "e", "d">> -> <<"#", "F", "F", "0", "0", "0", "0">>
      [] name = <<"g", "r", "e", "e", "n">> -> <<"#", "0", "0", "8", "0", "0", "0">>
      [] name = <<"b", "l", "u", "e">> -> <<"#", "0", "0", "0", "0", "F", "F">>
      [] name = <<"y", "e", "l", "l", "o", "w">> -> <<"#", "F", "F", "F", "F", "0", "0">>
      [] name = <<"c", "y", "a", "n">> -> <<"#", "0", "0", "F", "F", "F", "F">>
      [] name = <<"m", "a", "g", "e", "n", "t", "a">> -> <<"#", "F", "F", "0", "0", "F", "F">>
      [] name = <<"g", "r", "a", "y">> -> <<"#", "8", "0", "8", "0", "8", "0">>
      [] name = <<"g", "r", "e", "y">> -> <<"#", "8", "0", "8", "0", "8", "0">>
      [] name = Str_constructor -> Object_constructor
      [] name = Str_proto -> Object_prototype
      [] OTHER -> <<>>

\* normalizeColor(color), lines 120-152
normalizeColor(raw) ==
    LET c == trim(raw)
        m == RgbMatch(c)
    IN  IF raw \in {Object_constructor, Object_prototype, TypeError}
        THEN TypeError
        ELSE IF m.ok
        THEN toUpperCase(<<"#">> \o padStart2(toString16(parseInt(m.r)))
                                \o padStart2(toString16(parseInt(m.g)))
                                \o padStart2(toString16(parseInt(m.b))))
        ELSE IF HasAt(c, 1, <<"#">>)
        THEN toUpperCase(c)
        ELSE IF namedColors(toLowerCase(c)) # <<>>
        THEN namedColors(toLowerCase(c))
        ELSE Str_000000

\* ------------------------------------------- normalizeColor: applications
MaxApplications == 2   \* successive applications of normalizeColor

\* Number.prototype.toString(): the decimal digits of n
RECURSIVE toString10(_)
toString10(n) ==
    IF n < 10 THEN <<DigitChars[n + 1]>>
    ELSE Append(toString10(n \div 10), DigitChars[(n % 10) + 1])

Str_rgba    == <<"r", "g", "b", "a">>

\* the strings normalizeColor is applied to: hex colours of 6 and 3 digits,
\* names of the table and others, '', 'none', and the functional notations
RgbComponents == {0, 255, 300}
ColorInputs ==
    {Str_FF0000, Str_ff0000, Str_0000FF, Str_000000, <<"#", "f", "0", "0">>,
     <<"b", "l", "a", "c", "k">>, <<"w", "h", "i", "t", "e">>,
     <<"r", "e", "d">>, <<"g", "r", "e", "y">>, <<"R", "e", "d">>,
     <<" ", "r", "e", "d", " ">>, <<"o", "r", "a", "n", "g", "e">>,
     Str_none, <<>>, Str_constructor, Str_proto,
     <<"r", "g", "b", "(", "1", "0", "0", "%", ",", "0", "%", ",", "0", "%", ")">>,
     <<"r", "g", "b", "(", "2", "5", "5", " ", "0", " ", "0", ")">>}
    \cup
    {fn \o <<"(">> \o toString10(r) \o sep \o toString10(g) \o sep
        \o toString10(b) \o (IF fn = Str_rgba THEN sep \o <<"1">> ELSE <<>>)
        \o <<")">> :
        fn \in {Str_rgb, Str_rgba}, r \in RgbComponents, g \in RgbComponents,
        b \in RgbComponents, sep \in {<<",">>, <<",", " ">>}}


\* normalizeColor is applied to the input, then to the value it returned;
\* nothing follows a call that raised.
NormalizeColor ==
    /\ Len(normalized) < MaxApplications
    /\ normalized # <<>> => normalized[Len(normalized)] # TypeError
    /\ normalized' = Append(normalized,
            normalizeColor(IF normalized = <<>> THEN colorInput
                           ELSE normalized[Len(normalized)]))
    /\ UNCHANGED colorInput

\* style.match(/fill:\s*([^;]+)/), then fillMatch[1].trim(): the empty
\* string when the pattern does not match
StyleFill(style) ==
    LET at == {i \in 1..Len(style) :
                  /\ HasAt(style, i, Str_fillKey)
                  /\ RunEnd(style, i + 5, Range(style) \ {";"}) >= i + 5}
        i0 == SetMin(at)
    IN  IF at = {} THEN <<>>
        ELSE trim(SubSeq(style, i0 + 5, RunEnd(style, i0 + 5, Range(style) \ {";"})))

\* --------------------------------------------------- editor: operations
MaxElems == 2      \* elements matched by the selector in a document

\* attribute values of the documents and colour arguments that are tried
Elements    == {[fill |-> <<>>,       style |-> <<>>],
                [fill |-> <<>>,       style |-> Str_styleRed],
                [fill |-> Str_FF0000, style |-> <<>>],
                [fill |-> Str_0000FF, style |-> <<>>]}
ColorArgs   == {Str_FF0000, Str_ff0000, Str_0000FF, <<>>}
Styles      == {el.style : el \in Elements}
Fills       == {el.fill : el \in Elements} \cup ColorArgs
                  \cup {Str_000000, Str_none}

\* StyleFill and normalizeColor, tabulated once over the strings in use
StyleFillOf  == [style \in Styles |-> StyleFill(style)]
NormalizedOf == [c \in Fills \cup {StyleFill(st) : st \in Styles}
                    |-> normalizeColor(c)]
Documents   == UNION {[1..n -> Elements] : n \in 0..MaxElems}

\* the fill looked up in the style attribute first
FillOfStyleFirst(el) ==
    IF StyleFillOf[el.style] # <<>> THEN StyleFillOf[el.style] ELSE el.fill

\* lines 75-86 and 167-178: the fill attribute, else the fill of the style
\* attribute (empty if neither)
FillOf(el) == IF el.fill # <<>> THEN el.fill ELSE StyleFillOf[el.style]

NoCalls == [from |-> <<>>, to |-> <<>>, counts |-> <<>>]
NoTrip  == [from |-> <<>>, to |-> <<>>, calls |-> 0, before |-> 0,
            beforeTo |-> 0, after |-> 0]

\* lines 70-98: the colour map of the document, as the list of its entries
\* in insertion order
RECURSIVE colorMap(_)
colorMap(doc) ==
    IF doc = <<>> THEN <<>>
    ELSE LET before == colorMap(SubSeq(doc, 1, Len(doc) - 1))
             f      == FillOf(doc[Len(doc)])
             color  == NormalizedOf[IF f = <<>> \/ f = Str_none
                                    THEN Str_000000 ELSE f]
             hit    == {i \in 1..Len(before) : before[i].color = color}
         IN  IF hit = {}
             THEN Append(before, [color |-> color, count |-> 1])
             ELSE [before EXCEPT ![SetMin(hit)].count = @ + 1]

\* lines 101-106: Array.prototype.sort((a, b) => b.count - a.count), stable
RECURSIVE sortByCount(_)
sortByCount(list) ==
    IF list = <<>> THEN <<>>
    ELSE LET rest == sortByCount(SubSeq(list, 1, Len(list) - 1))
             x    == list[Len(list)]
             k    == Cardinality({i \in 1..Len(rest) : rest[i].count >= x.count})
         IN  SubSeq(rest, 1, k) \o <<x>> \o SubSeq(rest, k + 1, Len(rest))

\* the loop of changeColor setting the fill of every element
recolorAll(doc, fromColor, toColor) ==
    [i \in 1..Len(doc) |-> [doc[i] EXCEPT !.fill = toColor]]

\* the loop of changeColor with its two arguments exchanged
recolorSwapped(doc, fromColor, toColor) ==
    [i \in 1..Len(doc) |->
        LET f == FillOf(doc[i])
        IN  IF NormalizedOf[IF f = <<>> THEN Str_000000 ELSE f] = toColor
            THEN [doc[i] EXCEPT !.fill = fromColor]
            ELSE doc[i]]

\* lines 165-190: the elements after the loop of changeColor
recolor(doc, fromColor, toColor) ==
    [i \in 1..Len(doc) |->
        LET f == FillOf(doc[i])
        IN  IF NormalizedOf[IF f = <<>> THEN Str_000000 ELSE f] = fromColor
            THEN [doc[i] EXCEPT !.fill = toColor]
            ELSE doc[i]]

\* changedCount of changeColor
changedCount(doc, fromColor, toColor) ==
    Cardinality({i \in 1..Len(doc) :
        LET f == FillOf(doc[i])
        IN  NormalizedOf[IF f = <<>> THEN Str_000000 ELSE f] = fromColor})

\* The component is mounted with the svgContent prop and its effect
\* (lines 42-115) has run.
Mounted(doc) ==
    /\ svgContent = doc
    /\ svgElement = doc
    /\ colors = sortByCount(colorMap(doc))
    /\ selectedColor = IF doc = <<>> THEN <<>> ELSE sortByCount(colorMap(doc))[1].color
    /\ currentSVG = doc
    /\ recent = NoCalls
    /\ trip = NoTrip

\* changeColor(fromColor, toColor), lines 157-210
ChangeColor(fromColor, toColor) ==
    /\ svgElement' = recolor(svgElement, fromColor, toColor)
    /\ colors' = [i \in 1..Len(colors) |->
                     IF colors[i].color = fromColor
                     THEN [colors[i] EXCEPT !.color = toColor] ELSE colors[i]]
    /\ selectedColor' = toColor
    /\ currentSVG' = svgElement'
    /\ recent' = [from |-> fromColor, to |-> toColor,
                  counts |-> (IF /\ recent.counts # <<>>
                                 /\ recent.from = fromColor
                                 /\ recent.to = toColor
                              THEN <<recent.counts[Len(recent.counts)]>>
                              ELSE <<>>)
                             \o <<changedCount(svgElement, fromColor, toColor)>>]
    /\ trip' = IF trip.calls = 1 /\ trip.from = toColor /\ trip.to = fromColor
               THEN [trip EXCEPT !.calls = 2,
                        !.after = changedCount(svgElement', toColor, fromColor)]
               ELSE [from |-> fromColor, to |-> toColor, calls |-> 1,
                     before |-> changedCount(svgElement, fromColor, toColor),
                     beforeTo |-> changedCount(svgElement, toColor, fromColor),
                     after |-> 0]
    /\ UNCHANGED svgContent

\* replaceAllColors(toColor), lines 215-240
ReplaceAllColors(toColor) ==
    /\ svgElement' = [i \in 1..Len(svgElement) |->
                         [svgElement[i] EXCEPT !.fill = toColor]]
    /\ colors' = <<[color |-> toColor, count |-> Len(svgElement)]>>
    /\ selectedColor' = toColor
    /\ currentSVG' = svgElement'
    /\ recent' = NoCalls
    /\ trip' = NoTrip
    /\ UNCHANGED svgContent

\* resetColors(), lines 245-266
ResetColors ==
    /\ currentSVG' = svgContent
    /\ svgElement' = svgContent
    /\ recent' = NoCalls
    /\ trip' = NoTrip
    /\ UNCHANGED <<svgContent, colors, selectedColor>>

\* ------------------------------------------------- bulk colour change
MaxDocs       == 3   \* results in the batch
MaxBulkApplies == 2  \* applyBulkColorChange calls over a behaviour

\* SVG markup: whether it is well-formed XML, whether it holds a
\* <parsererror> element, and the elements the selector of line 183 matches
\* (for markup that is not well-formed: those the parser keeps in the
\* document it returns, none or the ones read before the error).
BatchElements == {[fill |-> Str_FF0000, style |-> <<>>],
                  [fill |-> Str_0000FF, style |-> <<>>],
                  [fill |-> <<>>,       style |-> Str_styleRed]}
Markups       == {[wellFormed |-> w, parsererror |-> FALSE, elems |-> d] :
                     w \in BOOLEAN,
                     d \in UNION {[1..n -> BatchElements] : n \in 0..1}}
NoMarkup      == [wellFormed |-> FALSE, parsererror |-> FALSE, elems |-> <<>>]
\* ConversionResult: a conversion that succeeded, or one that failed
ResultValues  == {[status |-> "success", svg |-> m] : m \in Markups}
                    \cup {[status |-> "error", svg |-> NoMarkup]}
BulkColors    == {Str_000000, Str_FF0000, Str_0000FF, <<>>}

\* DOMParser.parseFromString(markup, 'image/svg+xml') never raises: for
\* markup that is not well-formed it returns a document that holds a
\* <parsererror> element.
parseFromString(markup) ==
    [parsererror |-> markup.parsererror \/ ~markup.wellFormed,
     elems |-> markup.elems]

\* svgElement.outerHTML: the serialization of the document, well-formed
outerHTML(doc) ==
    [wellFormed |-> TRUE, parsererror |-> doc.parsererror, elems |-> doc.elems]

\* lines 185-207: the loop over the elements of one document
bulkRecolor(elems, normalizedFromColor, normalizedToColor) ==
    [i \in 1..Len(elems) |->
        LET f0 == FillOf(elems[i])
            f  == IF f0 = <<>> \/ f0 = Str_none THEN Str_000000 ELSE f0
        IN  IF NormalizedOf[f] = normalizedFromColor
            THEN [elems[i] EXCEPT !.fill = normalizedToColor]
            ELSE elems[i]]

\* editedSVGs[result.id] || result.svg
CurrentSVG(i) ==
    IF i \in DOMAIN editedSVGs THEN editedSVGs[i] ELSE results[i].svg

SuccessResults == {i \in 1..Len(results) : results[i].status = "success"}

\* The component is mounted with the results prop.
BatchInit ==
    /\ results \in UNION {[1..n -> ResultValues] : n \in 0..MaxDocs}
    /\ editedSVGs = <<>>
    /\ bulkFromColor = Str_000000
    /\ bulkToColor = Str_FF0000
    /\ toasts = <<>>

\* setBulkFromColor(e.target.value), lines 299 and 305
SetBulkFromColor(c) ==
    /\ bulkFromColor' = c
    /\ UNCHANGED <<results, editedSVGs, bulkToColor, toasts>>

\* setBulkToColor(e.target.value), lines 318 and 324
SetBulkToColor(c) ==
    /\ bulkToColor' = c
    /\ UNCHANGED <<results, editedSVGs, bulkFromColor, toasts>>

\* applyBulkColorChange(), lines 160-226.  Nothing in the try block raises,
\* so its catch block is not reached.
ApplyBulkColorChange ==
    /\ Len(toasts) < MaxBulkApplies
    /\ IF bulkFromColor = <<>> \/ bulkToColor = <<>>
       THEN /\ toasts' = Append(toasts, [kind |-> "error", count |-> 0])
            /\ UNCHANGED editedSVGs
       ELSE LET newEditedSVGs ==
                    [i \in SuccessResults |->
                        LET svgDoc == parseFromString(CurrentSVG(i))
                        IN  outerHTML([svgDoc EXCEPT !.elems =
                                bulkRecolor(@, NormalizedOf[bulkFromColor],
                                            NormalizedOf[bulkToColor])])]
            IN  /\ editedSVGs' = newEditedSVGs @@ editedSVGs
                /\ toasts' = Append(toasts,
                        [kind |-> "success",
                         count |-> Cardinality(DOMAIN newEditedSVGs)])
    /\ UNCHANGED <<results, bulkFromColor, bulkToColor>>

\* onSVGChange(...) of the editor of the first result, lines 404-408, that
\* is handleSVGEdit(result.id, newSVG), lines 231-236, with the
\* svgElement.outerHTML the editor passes
OnSVGChange ==
    /\ editedSVGs' = (1 :> [wellFormed |-> TRUE, parsererror |-> FALSE,
                            elems |-> svgElement']) @@ editedSVGs
    /\ UNCHANGED <<results, bulkFromColor, bulkToColor, toasts>>

\* ------------------------------------------------- path interpreter
MaxCmds == 4   \* commands a path is written from

\* JavaScript values of the interpreter: a number, NaN or undefined
Num(v)    == [kind |-> "number", v |-> v]
NaN       == [kind |-> "NaN", v |-> 0]
Undefined == [kind |-> "undefined", v |-> 0]

\* the command letters of pathRegex
CommandLetters == {"M", "m", "L", "l", "H", "h", "V", "v", "C", "c",
                   "S", "s", "Q", "q", "T", "t", "A", "a", "Z", "z"}
Separators     == {" ", ","}

\* argsStr.trim().split(/[\s,]+/).filter((s) => s.length > 0), from
\* position i on: the maximal runs of characters that are not separators
RECURSIVE Tokens(_, _)
Tokens(str, i) ==
    LET j == RunEnd(str, i, Separators) + 1
        e == RunEnd(str, j, Range(str) \ Separators)
    IN  IF j > Len(str) THEN <<>>
        ELSE <<SubSeq(str, j, e)>> \o Tokens(str, e + 1)

\* parseFloat(s) of a token without '.', exponent or 'Infinity': the value
\* of the longest prefix that is a signed integer, NaN if there is none
parseFloat(tok) ==
    LET signed == tok[1] \in {"-", "+"}
        d1     == IF signed THEN 2 ELSE 1
        d2     == RunEnd(tok, d1, Range(DigitChars))
        n      == parseInt(SubSeq(tok, d1, d2))
    IN  IF d2 < d1 THEN NaN
        ELSE Num(IF tok[1] = "-" THEN 0 - n ELSE n)

\* parseSVGPath(pathData), lines 265-281: one entry for each command letter,
\* with the numbers parsed from the text up to the next command letter
parseSVGPath(d) ==
    LET at == {i \in 1..Len(d) : d[i] \in CommandLetters}
        RECURSIVE From(_)
        From(i) ==
            LET later == {j \in at : j > i}
                stop  == IF later = {} THEN Len(d) ELSE SetMin(later) - 1
                toks  == Tokens(SubSeq(d, i + 1, stop), 1)
            IN  <<[cmd |-> d[i],
                   args |-> [k \in 1..Len(toks) |-> parseFloat(toks[k])]]>>
                \o (IF later = {} THEN <<>> ELSE From(SetMin(later)))
    IN  IF at = {} THEN <<>> ELSE From(SetMin(at))

\* args[i], i counted from 0
Arg(args, i) == IF i + 1 <= Len(args) THEN args[i + 1] ELSE Undefined

\* currentX + args[i]
Plus(a, b) ==
    IF a.kind = "number" /\ b.kind = "number" THEN Num(a.v + b.v) ELSE NaN

\* lines 294-326: the for loop of one command over its arguments, from
\* index i; st holds currentX, currentY and the lines written so far
RECURSIVE Groups(_, _, _, _)
Groups(cmd, args, i, st) ==
    IF i >= Len(args) THEN st
    ELSE IF cmd \in {"M", "m", "L", "l"}
    THEN LET abs == cmd \in {"M", "L"}
             x   == IF abs THEN Arg(args, i) ELSE Plus(st.x, Arg(args, i))
             y   == IF abs THEN Arg(args, i + 1)
                    ELSE Plus(st.y, Arg(args, i + 1))
             op  == IF cmd \in {"M", "m"} THEN "m" ELSE "l"
         IN  Groups(cmd, args, i + 2,
                    [x |-> x, y |-> y,
                     out |-> Append(st.out, [op |-> op, args |-> <<x, y>>])])
    ELSE LET abs == cmd = "C"
             pt(k, c) == IF abs THEN Arg(args, i + k) ELSE Plus(c, Arg(args, i + k))
             x1  == pt(0, st.x)
             y1  == pt(1, st.y)
             x2  == pt(2, st.x)
             y2  == pt(3, st.y)
             x   == pt(4, st.x)
             y   == pt(5, st.y)
         IN  Groups(cmd, args, i + 6,
                    [x |-> x, y |-> y,
                     out |-> Append(st.out,
                         [op |-> "c", args |-> <<x1, y1, x2, y2, x, y>>])])

\* lines 291-332: the loop over the commands, from the k-th one
RECURSIVE Commands(_, _, _)
Commands(commands, k, st) ==
    IF k > Len(commands) THEN st
    ELSE LET cmd  == commands[k].cmd
             args == commands[k].args
         IN  Commands(commands, k + 1,
                 IF cmd \in {"M", "m", "L", "l", "C", "c"}
                 THEN Groups(cmd, args, 0, st)
                 ELSE IF cmd \in {"Z", "z"}
                 THEN [st EXCEPT !.out = Append(@, [op |-> "h", args |-> <<>>])]
                 ELSE st)

\* pathCommandsToPDF(commands), lines 286-335
pathCommandsToPDF(commands) ==
    Commands(commands, 1, [x |-> Num(0), y |-> Num(0), out |-> <<>>]).out

\* The path data that are tried: commands with their arguments written in
\* decimal and separated by spaces, and commands whose argument list is
\* not numeric or does not fill its groups.
RECURSIVE JoinArgs(_)
JoinArgs(args) ==
    IF args = <<>> THEN <<>>
    ELSE IF Len(args) = 1 THEN toString10(args[1])
    ELSE toString10(args[1]) \o <<" ">> \o JoinArgs(Tail(args))

Written(cmd, args) ==
    [cmd |-> cmd, args |-> args, ok |-> TRUE, text |-> <<cmd>> \o JoinArgs(args)]

Segments ==
    {Written("M", <<0, 0>>), Written("l", <<5, 0, 5, 0>>),
     Written("L", <<10, 0>>), Written("L", <<10, 10>>), Written("Z", <<>>),
     Written("H", <<10>>), Written("v", <<5>>), Written("l", <<0, 5>>),
     Written("q", <<1, 1, 2, 2>>), Written("c", <<1, 1, 2, 2, 3, 3>>),
     [cmd |-> "L", args |-> <<>>, ok |-> FALSE, text |-> <<"L", "x", " ", "1">>],
     [cmd |-> "L", args |-> <<>>, ok |-> FALSE, text |-> <<"L", "5">>]}

RECURSIVE TextOf(_)
TextOf(segs) ==
    IF segs = <<>> THEN <<>>
    ELSE IF Len(segs) = 1 THEN segs[1].text
    ELSE Head(segs).text \o <<" ">> \o TextOf(Tail(segs))

PathInit ==
    /\ pathSegs \in UNION {[1..n -> Segments] : n \in 1..MaxCmds}
    /\ pathData = TextOf(pathSegs)
    /\ pathStage = "input"
    /\ pathCommands = <<>>
    /\ pdfCommands = <<>>

\* const pathCommands = parseSVGPath(d), line 203
ParseSVGPath ==
    /\ pathStage = "input"
    /\ pathCommands' = parseSVGPath(pathData)
    /\ pathStage' = "parsed"
    /\ UNCHANGED <<pathSegs, pathData, pdfCommands>>

\* streamContent += pathCommandsToPDF(pathCommands), line 204
PathCommandsToPDF ==
    /\ pathStage = "parsed"
    /\ pdfCommands' = pathCommandsToPDF(pathCommands)
    /\ pathStage' = "emitted"
    /\ UNCHANGED <<pathSegs, pathData, pathCommands>>

\* ------------------------------------------------- export: emitters
MaxDrawables == 2   \* drawable elements of the exported document

\* parseInt(s, 16) of two hexadecimal digits
parseInt16(s) ==
    16 * (IndexOf(HexChars, toLowerCase(s)[1]) - 1)
        + (IndexOf(HexChars, toLowerCase(s)[2]) - 1)

\* hexToRGB(hex), lines 340-349
hexToRGB(hex) ==
    LET h == IF HasAt(hex, 1, <<"#">>) THEN Tail(hex) ELSE hex
    IN  IF Len(h) = 6 /\ \A i \in 1..6 : toLowerCase(h)[i] \in Range(HexChars)
        THEN [r |-> parseInt16(SubSeq(h, 1, 2)), g |-> parseInt16(SubSeq(h, 3, 4)),
              b |-> parseInt16(SubSeq(h, 5, 6))]
        ELSE [r |-> 0, g |-> 0, b |-> 0]

RECURSIVE GCD(_, _)
GCD(a, b) == IF b = 0 THEN a ELSE GCD(b, a % b)

\* rgb.r / 255: the quotient, as a fraction in lowest terms
Over255(v) == [num |-> v \div GCD(v, 255), den |-> 255 \div GCD(v, 255)]

\* a coordinate of the circle approximation: whole + k * timesK, k = 0.552
Coord(whole, timesK) == [whole |-> whole, timesK |-> timesK]

\* parseFloat(el.getAttribute(name) || dflt)
AttrNum(attr, dflt) == parseFloat(IF attr = <<>> THEN dflt ELSE attr)

\* a - b and a + b on JavaScript numbers
Minus(a, b) ==
    IF a.kind = "number" /\ b.kind = "number" THEN Num(a.v - b.v) ELSE NaN

\* `${r / 255} ${g / 255} ${b / 255} rg`
ColorSet(op, color, i) ==
    LET rgb == hexToRGB(IF color = <<>> THEN Str_000000 ELSE color)
    IN  [op |-> op, el |-> i,
         args |-> <<Over255(rgb.r), Over255(rgb.g), Over255(rgb.b)>>]

\* lines 184-192: the lines written for a circle, with the four curves of
\* its approximation
CircleOps(cx, cy, r, fill, i) ==
    <<ColorSet("rg", fill, i),
      [op |-> "m", el |-> i,
       args |-> <<Coord(Minus(cx, r), Num(0)), Coord(cy, Num(0))>>],
      [op |-> "c", el |-> i,
       args |-> <<Coord(Minus(cx, r), Num(0)), Coord(cy, r),
                  Coord(cx, Minus(Num(0), r)), Coord(Plus(cy, r), Num(0)),
                  Coord(cx, Num(0)), Coord(Plus(cy, r), Num(0))>>],
      [op |-> "c", el |-> i,
       args |-> <<Coord(cx, r), Coord(Plus(cy, r), Num(0)),
                  Coord(Plus(cx, r), Num(0)), Coord(cy, r),
                  Coord(Plus(cx, r), Num(0)), Coord(cy, Num(0))>>],
      [op |-> "c", el |-> i,
       args |-> <<Coord(Plus(cx, r), Num(0)), Coord(cy, Minus(Num(0), r)),
                  Coord(cx, r), Coord(Minus(cy, r), Num(0)),
                  Coord(cx, Num(0)), Coord(Minus(cy, r), Num(0))>>],
      [op |-> "c", el |-> i,
       args |-> <<Coord(cx, Minus(Num(0), r)), Coord(Minus(cy, r), Num(0)),
                  Coord(Minus(cx, r), Num(0)), Coord(cy, Minus(Num(0), r)),
                  Coord(Minus(cx, r), Num(0)), Coord(cy, Num(0))>>],
      [op |-> "f", el |-> i, args |-> <<>>]>>

\* lines 161-225: the lines createVectorPDF
\* writes for the element el, the i-th drawable of the document
ElementOps(el, i) ==
    LET g(k)  == IF k <= Len(el.geom) THEN AttrNum(el.geom[k], <<"0">>)
                 ELSE AttrNum(<<>>, <<"0">>)
        width == [op |-> "w", el |-> i, args |-> <<AttrNum(el.strokeWidth, <<"1">>)>>]
    IN  CASE el.tag = "rect" ->
               <<ColorSet("rg", el.fill, i), width,
                 [op |-> "re", el |-> i, args |-> <<g(1), g(2), g(3), g(4)>>],
                 [op |-> "f", el |-> i, args |-> <<>>]>>
          [] el.tag = "circle" -> CircleOps(g(1), g(2), g(3), el.fill, i)
          [] el.tag = "path" ->
               LET cmds == pathCommandsToPDF(parseSVGPath(el.d))
               IN  <<ColorSet("rg", el.fill, i), width>>
                   \o [k \in 1..Len(cmds) |->
                          [op |-> cmds[k].op, el |-> i, args |-> cmds[k].args]]
                   \o <<[op |-> "f", el |-> i, args |-> <<>>]>>
          [] el.tag = "line" ->
               <<ColorSet("RG", el.stroke, i), width,
                 [op |-> "m", el |-> i, args |-> <<g(1), g(2)>>],
                 [op |-> "l", el |-> i, args |-> <<g(3), g(4)>>],
                 [op |-> "S", el |-> i, args |-> <<>>]>>
          [] OTHER -> <<>>

\* svgElement.querySelectorAll(tag): the positions of the elements, in
\* document order
QuerySelectorAll(elems, tag) ==
    SelectSeq([i \in 1..Len(elems) |-> i], LAMBDA i : elems[i].tag = tag)

\* rects.forEach(...), circles.forEach(...), ...: the lines written for the
\* elements at the positions idxs
RECURSIVE ForEach(_, _)
ForEach(elems, idxs) ==
    IF idxs = <<>> THEN <<>>
    ELSE ElementOps(elems[Head(idxs)], Head(idxs)) \o ForEach(elems, Tail(idxs))

\* createVectorPDF(content, width, height), lines 143-260: the content
\* stream; polygons and polylines are selected and never written
createVectorPDF(content, width, height) ==
    LET svgDoc == parseFromString(content)
    IN  [format |-> "pdf", page |-> <<0, 0, width, height>>,
         sections |-> <<>>,
         body |-> ForEach(svgDoc.elems, QuerySelectorAll(svgDoc.elems, "rect"))
                  \o ForEach(svgDoc.elems, QuerySelectorAll(svgDoc.elems, "circle"))
                  \o ForEach(svgDoc.elems, QuerySelectorAll(svgDoc.elems, "path"))
                  \o ForEach(svgDoc.elems, QuerySelectorAll(svgDoc.elems, "line"))]

\* the file written by downloadDXF: the HEADER section, the ENTITIES
\* section with one LINE entity for each path (body), and the EOF marker
dxfContent(content) ==
    LET svgDoc == parseFromString(content)
        paths  == QuerySelectorAll(svgDoc.elems, "path")
    IN  [format |-> "dxf", page |-> <<>>,
         sections |-> <<"HEADER", "ENTITIES", "EOF">>,
         body |-> [k \in 1..Len(paths) |->
                    LET fill == IF svgDoc.elems[paths[k]].fill = <<>>
                                THEN Str_000000
                                ELSE svgDoc.elems[paths[k]].fill
                    IN  [op |-> "LINE", el |-> paths[k],
                         args |-> <<0, 0, 0, 100, 100, 0,
                                    IF fill = Str_000000 THEN 256 ELSE 7>>]]]

\* downloadPDF, lines 106-107: the page size when the document declares no
\* viewBox, width or height (as the documents exported here)
DefaultWidth  == 800
DefaultHeight == 600

\* the drawable elements and the documents that are exported
Shape(tag, fill, stroke, geom, d) ==
    [tag |-> tag, fill |-> fill, style |-> <<>>, stroke |-> stroke,
     strokeWidth |-> <<>>, geom |-> geom, d |-> d]
ExportElements ==
    {Shape("rect", Str_FF0000, <<>>, <<<<"0">>, <<"0">>, <<"1", "0">>, <<"1", "0">>>>, <<>>),
     Shape("rect", <<"r", "e", "d">>, <<>>, <<<<"0">>, <<"0">>, <<"1", "0">>, <<"1", "0">>>>, <<>>),
     Shape("rect", Str_FF0000, <<>>, <<<<"0">>, <<"0">>, <<"x">>, <<"1", "0">>>>, <<>>),
     Shape("circle", <<>>, <<>>, <<<<"5">>, <<"5">>, <<"2">>>>, <<>>),
     Shape("path", Str_0000FF, <<>>, <<>>, <<"M", "0", " ", "0", " ", "L", "1", "0", " ", "0">>),
     Shape("line", <<>>, Str_FF0000, <<<<"0">>, <<"0">>, <<"5">>, <<"5">>>>, <<>>),
     Shape("polygon", Str_FF0000, <<>>, <<>>, <<>>)}
ExportMarkups ==
    {[wellFormed |-> w, parsererror |-> FALSE, elems |-> d] :
        w \in BOOLEAN,
        d \in UNION {[1..n -> ExportElements] : n \in 0..MaxDrawables}}

\* the files of each document, computed once: downloadPDF, lines 124-127,
\* and downloadDXF
PdfOf == [m \in ExportMarkups |->
             createVectorPDF(m, DefaultWidth, DefaultHeight)]
DxfOf == [m \in ExportMarkups |-> dxfContent(m)]

\* handleDownload(format), ExportOptions.tsx lines 342-370, with downloadSVG
\* (83-92), downloadPDF (part_010, 97-138) and downloadDXF (264-337), for
\* the formats svg, pdf and dxf: the file and the toast
\* each produces; out holds the files and toasts so far, a toast being
\* kept as its kind and the export that showed it.  None of the
\* functions raises, so no catch block is reached.
handleDownload(out, format) ==
    LET file == CASE format = "pdf" ->
                       PdfOf[exportContent]
                  [] format = "dxf" -> DxfOf[exportContent]
                  [] OTHER -> [format |-> "svg", page |-> <<>>,
                               sections |-> <<>>,
                               body |-> <<exportContent>>]
    IN  [files  |-> out.files \cup {file},
         toasts |-> out.toasts \cup {[kind |-> "success", what |-> format]}]

\* no exportAll() loop is running
NoRun == [rest |-> <<>>]

\* The component is mounted with the svgContent prop.
ExportInit ==
    /\ exportContent \in ExportMarkups
    /\ selectedFormats = <<"svg">>
    /\ isExporting = FALSE
    /\ exportRun = NoRun
    /\ downloads = {}
    /\ exportToasts = {}

\* toggleFormat(format), lines 72-78
ToggleFormat(format) ==
    /\ selectedFormats' =
           IF format \in Range(selectedFormats)
           THEN SelectSeq(selectedFormats, LAMBDA f : f # format)
           ELSE Append(selectedFormats, format)
    /\ UNCHANGED <<exportContent, isExporting, exportRun, downloads,
                   exportToasts>>

\* the Download SVG button: handleDownload('svg')
DownloadSVG ==
    /\ LET out == handleDownload([files |-> downloads, toasts |-> exportToasts],
                                 "svg")
       IN  downloads' = out.files /\ exportToasts' = out.toasts
    /\ UNCHANGED <<exportContent, selectedFormats, isExporting, exportRun>>

\* the Export Selected button (disabled while exporting and when nothing is
\* selected): exportAll(), ExportOptions.tsx lines 372-387, up to its first
\* 500 ms delay; the loop runs over the formats selected at the click
ExportAll ==
    /\ ~isExporting
    /\ selectedFormats # <<>>
    /\ isExporting' = TRUE
    /\ LET out == handleDownload([files |-> downloads, toasts |-> exportToasts],
                                 Head(selectedFormats))
       IN  downloads' = out.files /\ exportToasts' = out.toasts
    /\ exportRun' = [rest |-> Tail(selectedFormats)]
    /\ UNCHANGED <<exportContent, selectedFormats>>

\* The 500 ms timer of exportAll() fires: the next format, or the end of
\* the loop.
ExportTimerFired ==
    /\ isExporting
    /\ IF exportRun.rest = <<>>
       THEN /\ exportToasts' = exportToasts \cup
                   {[kind |-> "success", what |-> "all"]}
            /\ isExporting' = FALSE
            /\ exportRun' = NoRun
            /\ UNCHANGED downloads
       ELSE /\ LET out == handleDownload(
                              [files |-> downloads, toasts |-> exportToasts],
                              Head(exportRun.rest))
               IN  downloads' = out.files /\ exportToasts' = out.toasts
            /\ exportRun' = [exportRun EXCEPT !.rest = Tail(@)]
            /\ UNCHANGED isExporting
    /\ UNCHANGED <<exportContent, selectedFormats>>

\* ------------------------------------------------------- Tool page
MaxFiles == 2   \* files uploaded over a behaviour

\* handleFilesSelected(files), lines 73-76, called by handleFileSelect of
\* BulkUploader (lines 83-103) with its list and one new file, whose id
\* is fresh
HandleFilesSelected ==
    /\ Len(uploadedFiles) < MaxFiles
    /\ uploadedFiles' = Append(uploadedFiles, Len(uploadedFiles) + 1)
    /\ UNCHANGED toolResults

\* handleConvertStart(), lines 78-185: the click handler of the Convert
\* button of BulkUploader (lines 270-278, disabled only while a file of
\* BulkUploader's own list is 'converting', which none ever is) and of the
\* Convert button of the page.  One QueueItem is made for each uploaded
\* file, with the id of the file; its callbacks do not raise.
HandleConvertStart ==
    /\ uploadedFiles # <<>>
    /\ calls.enqueue < MaxEnqueues
    /\ Len(tasks) + Len(uploadedFiles) <= MaxTasks
    /\ LET n      == Len(uploadedFiles)
           ids    == [i \in 1..n |-> Len(tasks) + i]
           made   == [i \in 1..n |-> [params |-> params,
                                       batch |-> calls.enqueue + 1,
                                       file |-> uploadedFiles[i]]]
           throws == [i \in Range(queue) \cup Range(ids) |-> {}]
           m0     == [Obj(NoLoop, throws) EXCEPT !.tasks = @ \o made,
                                         !.ev = @ \o [i \in 1..n |-> <<>>]]
           m      == enqueue(m0, ids)
       IN  /\ Commit(m, NoLoop)
           /\ tasks' = m.tasks
    /\ calls' = [calls EXCEPT !.enqueue = @ + 1]
    /\ toolResults' = <<>>
    /\ UNCHANGED <<stateCallback, params, cleared, survivors, uploadedFiles>>

\* The promise of convertImageFile settles for the item of the activation
\* l: process() resumes and calls onComplete (lines 97-133) or onError
\* (lines 134-153) of handleConvertStart, which appends one entry with the
\* id of the file to the results.
ConvertSettled(l, outcome) ==
    /\ TraceSettled(l, outcome, [i \in Range(queue) \cup {l.item} |-> {}])
    /\ toolResults' =
           Append(toolResults,
                  [id |-> tasks[l.item].file,
                   status |-> IF "onComplete" \in Range(ev'[l.item])
                              THEN "success" ELSE "error"])
    /\ UNCHANGED uploadedFiles

\* ------------------------------------------------------- specifications
\* The state of the parts a specification leaves unused.
ColorParked == colorInput = <<>> /\ normalized = <<>>
BatchParked ==
    /\ results = <<>>
    /\ editedSVGs = <<>>
    /\ bulkFromColor = Str_000000
    /\ bulkToColor = Str_FF0000
    /\ toasts = <<>>
PathParked ==
    /\ pathSegs = <<>>
    /\ pathData = <<>>
    /\ pathStage = "input"
    /\ pathCommands = <<>>
    /\ pdfCommands = <<>>
ExportParked ==
    /\ exportContent = [wellFormed |-> TRUE, parsererror |-> FALSE,
                        elems |-> <<>>]
    /\ selectedFormats = <<"svg">>
    /\ isExporting = FALSE
    /\ exportRun = NoRun
    /\ downloads = {}
    /\ exportToasts = {}
ToolParked  == uploadedFiles = <<>> /\ toolResults = <<>>
LibParked   == ColorParked /\ BatchParked /\ PathParked /\ ExportParked
                   /\ ToolParked

\* The queue alone: the editor is mounted on an empty document and unused.
Init == QueueInit /\ Mounted(<<>>) /\ LibParked

Next ==
    \/ \E does \in {"returns", "raises"} :
         OnStateChange(does) /\ UNCHANGED <<editorVars, libVars>>
    \/ \E p \in ParamValues : SetParams(p) /\ UNCHANGED <<editorVars, libVars>>
    \/ \E n \in 1..MaxTasks :
         \E throws \in Behaviours(NoFile, Range(queue) \cup (Len(tasks)+1)..(Len(tasks)+n)) :
           Enqueue(n, throws) /\ UNCHANGED <<editorVars, libVars>>
    \/ Clear /\ UNCHANGED <<editorVars, libVars>>
    \/ \E l \in loops, o \in TraceOutcomes :
         \E throws \in Behaviours(l.item, Range(queue)) :
           TraceSettled(l, o, throws) /\ UNCHANGED <<editorVars, libVars>>
    \/ \E l \in loops : \E throws \in Behaviours(NoFile, Range(queue)) :
           TimerFired(l, throws) /\ UNCHANGED <<editorVars, libVars>>

Spec == Init /\ [][Next]_vars

\* The colour editor alone, mounted on any document; the queue is unused.
EditorInit == QueueInit /\ LibParked /\ \E doc \in Documents : Mounted(doc)

EditorNext ==
    \/ \E a, b \in ColorArgs : ChangeColor(a, b) /\ UNCHANGED <<queueVars, libVars>>
    \/ \E b \in ColorArgs : ReplaceAllColors(b) /\ UNCHANGED <<queueVars, libVars>>
    \/ ResetColors /\ UNCHANGED <<queueVars, libVars>>

SpecEditor == EditorInit /\ [][EditorNext]_vars

\* normalizeColor alone, applied to any of the input strings.
ColorSpecInit ==
    /\ QueueInit /\ Mounted(<<>>)
    /\ colorInput \in ColorInputs
    /\ normalized = <<>>
    /\ BatchParked /\ PathParked /\ ExportParked /\ ToolParked

ColorNext ==
    NormalizeColor
        /\ UNCHANGED <<queueVars, editorVars, batchVars, pathVars, exportVars, toolVars>>

SpecColor == ColorSpecInit /\ [][ColorNext]_vars

\* The bulk colour change of the results list alone.
BatchSpecInit ==
    /\ QueueInit /\ Mounted(<<>>)
    /\ ColorParked /\ BatchInit /\ PathParked /\ ExportParked /\ ToolParked

BatchNext ==
    \/ \E c \in BulkColors :
         SetBulkFromColor(c) /\ UNCHANGED <<queueVars, editorVars, colorVars, pathVars, exportVars, toolVars>>
    \/ \E c \in BulkColors :
         SetBulkToColor(c) /\ UNCHANGED <<queueVars, editorVars, colorVars, pathVars, exportVars, toolVars>>
    \/ ApplyBulkColorChange /\ UNCHANGED <<queueVars, editorVars, colorVars, pathVars, exportVars, toolVars>>

SpecBatch == BatchSpecInit /\ [][BatchNext]_vars

\* The results list of one converted document with the colour editor of
\* that result: the editor is given result.svg as its svgContent prop
\* (line 405) whenever it is mounted, and reports every change through
\* onSVGChange.
ResultsSpecInit ==
    /\ QueueInit /\ ColorParked /\ PathParked /\ ExportParked /\ ToolParked
    /\ \E doc \in Documents :
          /\ Mounted(doc)
          /\ results = <<[status |-> "success",
                          svg |-> [wellFormed |-> TRUE, parsererror |-> FALSE,
                                   elems |-> doc]]>>
    /\ editedSVGs = <<>>
    /\ bulkFromColor = Str_000000
    /\ bulkToColor = Str_FF0000
    /\ toasts = <<>>

ResultsNext ==
    \/ \E c \in {Str_000000, Str_0000FF} :
         SetBulkFromColor(c) /\ UNCHANGED <<queueVars, editorVars, colorVars, pathVars, exportVars, toolVars>>
    \/ \E c \in {Str_FF0000, Str_000000} :
         SetBulkToColor(c) /\ UNCHANGED <<queueVars, editorVars, colorVars, pathVars, exportVars, toolVars>>
    \/ ApplyBulkColorChange /\ UNCHANGED <<queueVars, editorVars, colorVars, pathVars, exportVars, toolVars>>
    \/ \E a, b \in {Str_FF0000, Str_0000FF} :
         ChangeColor(a, b) /\ OnSVGChange
             /\ UNCHANGED <<queueVars, colorVars, pathVars, exportVars, toolVars>>
    \/ \E b \in {Str_0000FF} :
         ReplaceAllColors(b) /\ OnSVGChange
             /\ UNCHANGED <<queueVars, colorVars, pathVars, exportVars, toolVars>>
    \/ ResetColors /\ OnSVGChange
             /\ UNCHANGED <<queueVars, colorVars, pathVars, exportVars, toolVars>>

SpecResults == ResultsSpecInit /\ [][ResultsNext]_vars

\* The path interpreter alone, applied to any of the path data.
PathSpecInit ==
    /\ QueueInit /\ Mounted(<<>>)
    /\ ColorParked /\ BatchParked /\ PathInit /\ ExportParked /\ ToolParked

PathNext ==
    \/ ParseSVGPath
         /\ UNCHANGED <<queueVars, editorVars, colorVars, batchVars, exportVars, toolVars>>
    \/ PathCommandsToPDF
         /\ UNCHANGED <<queueVars, editorVars, colorVars, batchVars, exportVars, toolVars>>

SpecPath == PathSpecInit /\ [][PathNext]_vars

\* The export component alone, mounted on any of the documents.
ExportSpecInit ==
    /\ QueueInit /\ Mounted(<<>>)
    /\ ColorParked /\ BatchParked /\ PathParked /\ ExportInit /\ ToolParked

ExportNext ==
    \/ \E f \in {"svg", "pdf", "dxf"} :
         ToggleFormat(f)
             /\ UNCHANGED <<queueVars, editorVars, colorVars, batchVars, pathVars, toolVars>>
    \/ DownloadSVG
         /\ UNCHANGED <<queueVars, editorVars, colorVars, batchVars, pathVars, toolVars>>
    \/ ExportAll
         /\ UNCHANGED <<queueVars, editorVars, colorVars, batchVars, pathVars, toolVars>>
    \/ ExportTimerFired
         /\ UNCHANGED <<queueVars, editorVars, colorVars, batchVars, pathVars, toolVars>>

SpecExport == ExportSpecInit /\ [][ExportNext]_vars

\* The page with the queue: the effect of lines 68-71 registers the state
\* callback of the page, which returns, before any handler of the page can
\* be called.
ToolSpecInit ==
    /\ QueueInit /\ Mounted(<<>>)
    /\ ColorParked /\ BatchParked /\ PathParked /\ ExportParked
    /\ ToolParked

ToolNext ==
    \/ OnStateChange("returns")
         /\ UNCHANGED <<editorVars, colorVars, batchVars, pathVars, exportVars, toolVars>>
    \/ stateCallback # "none" /\ HandleFilesSelected
         /\ UNCHANGED <<queueVars, editorVars, colorVars, batchVars, pathVars, exportVars>>
    \/ stateCallback # "none" /\ HandleConvertStart
         /\ UNCHANGED <<editorVars, colorVars, batchVars, pathVars, exportVars>>
    \/ \E l \in loops, o \in TraceOutcomes :
         ConvertSettled(l, o)
             /\ UNCHANGED <<editorVars, colorVars, batchVars, pathVars, exportVars>>
    \/ \E l \in loops :
         TimerFired(l, [i \in Range(queue) |-> {}])
             /\ UNCHANGED <<editorVars, colorVars, batchVars, pathVars, exportVars, toolVars>>

SpecTool == ToolSpecInit /\ [][ToolNext]_vars

\* ------------------------------------------------------ queue: properties
InFlight     == {l.item : l \in {k \in loops : k.pc = "tracing"}}
Terminal(id) == SelectSeq(ev[id], LAMBDA c : c \in {"onComplete", "onError"})
Progress(id) == SelectSeq(ev[id], LAMBDA c : c \in {"onProgress10", "onProgress100"})
Value(c)     == IF c = "onProgress10" THEN 10 ELSE 100
Pos(seq, c)  == CHOOSE i \in 1..Len(seq) : seq[i] = c
Started(id)  == ev[id] # <<>>
\* The states delivered to the callback, from the last one before the latest
\* delivering handler on
Delivered    == IF lastDelivered = NoNote THEN notified
                ELSE <<lastDelivered>> \o notified

\* C1: at most one tracer call (convertImageFile) is in flight at any time,
\* whatever enqueue, clear, setParams and tracer completions interleave.
C1_OneTracerCall == Cardinality({l \in loops : l.pc = "tracing"}) <= 1

\* C1 witness: a task of the first enqueue() is being traced while tasks of
\* a second enqueue() wait: that enqueue's process() returned at the guard.
C1_Witness ==
    \E l \in loops :
        /\ l.pc = "tracing"
        /\ tasks[l.item].batch = 1
        /\ \E i \in Range(queue) : tasks[i].batch = 2

\* C2 (as claimed): every task the queue started gets at most one of
\* onComplete / onError, at most once, and exactly one once its processing
\* is over, whatever the tracer result and whatever its callbacks do.
C2_ExactlyOneTerminal ==
    \A id \in 1..Len(tasks) :
        /\ Len(Terminal(id)) <= 1
        /\ (Started(id) /\ id \notin InFlight) => Len(Terminal(id)) = 1

\* C3 (as claimed): a task's failure never halts the queue: while the queue
\* reports isProcessing or holds pending tasks, an activation of process()
\* is alive to drain them.
C3_NeverHalts ==
    (isProcessing \/ queue # <<>>) => loops # {}

\* C4: for a task that received onComplete, the onProgress values are
\* non-decreasing, the last one is 100, and onProgress(100) was called
\* before onComplete.
C4_ProgressThenComplete ==
    \A id \in 1..Len(tasks) :
        "onComplete" \in Range(ev[id]) =>
            LET pr == Progress(id)
            IN  /\ \A i, j \in 1..Len(pr) : i < j => Value(pr[i]) <= Value(pr[j])
                /\ pr # <<>>
                /\ Value(pr[Len(pr)]) = 100
                /\ \A i \in 1..Len(ev[id]) :
                       ev[id][i] \in {"onProgress10", "onProgress100"}
                           => i < Pos(ev[id], "onComplete")

\* C4 witness: a task has completed successfully after both progress calls.
C4_Witness ==
    \E id \in 1..Len(tasks) :
        ev[id] = <<"onProgress10", "onProgress100", "onComplete">>

\* C5 (as claimed): after one enqueue of n tasks on a fresh queue, once all
\* n have received onComplete or onError and no activation of process() is
\* pending, the state is completed = n, total = n, isProcessing = false.
C5_FinalState ==
    (/\ calls.enqueue = 1
     /\ calls.clear = 0
     /\ loops = {}
     /\ \A id \in 1..Len(tasks) : Terminal(id) # <<>>)
    => (completed = Len(tasks) /\ total = Len(tasks) /\ ~isProcessing)

\* C6 (as claimed): without clear(), two states delivered one after the
\* other to the state-change callback during a run (both isProcessing) have
\* non-decreasing completed and non-decreasing total.
C6_MonotoneWithinRun ==
    calls.clear = 0 =>
        \A i \in 1..(Len(Delivered) - 1) :
            (Delivered[i].isProcessing /\ Delivered[i + 1].isProcessing) =>
                /\ Delivered[i].completed <= Delivered[i + 1].completed
                /\ Delivered[i].total <= Delivered[i + 1].total

\* C7 (as claimed): the tracer call of a task gets the params that were in
\* effect when the task was enqueued.
C7_ParamsSnapshot ==
    \A l \in loops : l.pc = "tracing" => l.params = tasks[l.item].params

\* C8: a task in flight when clear() ran is not cancelled (it is still in
\* flight or has received onComplete or onError), and a task that clear()
\* removed from the pending queue is never started and gets no callback.
C8_ClearOnlyDropsPending ==
    /\ \A id \in survivors : id \in InFlight \/ Terminal(id) # <<>>
    /\ \A id \in cleared :
           /\ ev[id] = <<>>
           /\ id \notin {l.item : l \in loops}

\* C8 witness: clear() dropped a pending task while another was in flight,
\* the one in flight has since received its callback and the queue is idle.
C8_Witness ==
    /\ cleared # {}
    /\ \E id \in survivors : Terminal(id) # <<>>
    /\ loops = {}
    /\ ~isProcessing

\* C9 (as claimed): an enqueue() of n tasks increases total by exactly n and
\* starts a drain loop (some task gets its first callback) if and only if
\* the queue was idle.
C9_EnqueueBumpsTotal ==
    [][calls'.enqueue = calls.enqueue + 1 =>
          /\ total' = total + (Len(tasks') - Len(tasks))
          /\ (ev' # ev \o [i \in 1..(Len(tasks') - Len(tasks)) |-> <<>>])
                 <=> ~isProcessing]_vars

\* C22: tasks are processed in the order they were enqueued: when the
\* tracer calls of two tasks a and b were both made and a was enqueued
\* before b, a was taken from the queue before b and had received its
\* onComplete or onError when b was taken.
C22_FifoOrder ==
    \A p, q \in 1..Len(starts) :
        (/\ starts[p].traced /\ starts[q].traced
         /\ starts[p].item < starts[q].item)
        => (p < q /\ starts[p].item \in starts[q].done)

\* C22 witness: a task of the first enqueue() and a task of the second were
\* both traced.
C22_Witness ==
    \E p, q \in 1..Len(starts) :
        /\ starts[p].traced /\ starts[q].traced
        /\ tasks[starts[p].item].batch = 1
        /\ tasks[starts[q].item].batch = 2

\* C23 (as claimed): a task is taken from the queue only at the start of a
\* drain loop or when the delay of the task before it is over.
C23_DelayBeforeNext ==
    \A q \in 1..Len(starts) : starts[q].from \in {"none", "delay"}

\* C25 (as claimed): completed <= total in every state of the queue.
C25_CompletedAtMostTotal == completed <= total

\* C26 (as claimed): between two handlers, when isProcessing is false the
\* pending queue is empty.
C26_NoTaskStranded == ~isProcessing => queue = <<>>

C11_RoundTripRestoresCount ==
    (trip.calls = 2 /\ trip.from # trip.to) => trip.after = trip.before

\* C11 (amended): the same, for a colour B that is its own normal form and
\* that no element of the document carries before the first call.
C11_RoundTripRestoresCountAmended ==
    (/\ trip.calls = 2
     /\ trip.from # trip.to
     /\ NormalizedOf[trip.to] = trip.to
     /\ trip.beforeTo = 0)
        => trip.after = trip.before

\* C11 witness: such a round trip on a document that had elements carrying A.
C11_Witness ==
    /\ trip.calls = 2
    /\ trip.from # trip.to
    /\ NormalizedOf[trip.to] = trip.to
    /\ trip.beforeTo = 0
    /\ trip.before > 0
    /\ trip.after = trip.before

\* the normalized fill of an element: of its fill attribute, else of the
\* fill of its style attribute, else black
NormFill(el) ==
    LET f == FillOf(el)
    IN  NormalizedOf[IF f = <<>> THEN Str_000000 ELSE f]

\* C24: a changeColor(from, to) call sets the fill attribute to `to` on
\* exactly the elements whose normalized fill is `from`, counts exactly
\* those elements, and leaves every other element as it was.
C24_RecolorExactlyTheGroup ==
    [][recent'.counts # <<>> =>
          /\ Len(svgElement') = Len(svgElement)
          /\ \A i \in 1..Len(svgElement) :
                 IF NormFill(svgElement[i]) = recent'.from
                 THEN /\ svgElement'[i].fill = recent'.to
                      /\ svgElement'[i].style = svgElement[i].style
                 ELSE svgElement'[i] = svgElement[i]
          /\ recent'.counts[Len(recent'.counts)] =
                 Cardinality({i \in 1..Len(svgElement) :
                                 NormFill(svgElement[i]) = recent'.from})]_vars

\* C24 witness: the last changeColor call changed one element of a
\* document and left another one, of another color, alone.
C24_Witness ==
    /\ recent.counts # <<>>
    /\ recent.counts[Len(recent.counts)] = 1
    /\ recent.from # recent.to
    /\ \E i, j \in 1..Len(svgElement) :
          /\ svgElement[i].fill = recent.to
          /\ NormFill(svgElement[j]) \notin {recent.from, NormalizedOf[recent.to]}

\* the palette agrees with the document
PaletteConsistent ==
    /\ \A i, j \in 1..Len(colors) :
           i # j => colors[i].color # colors[j].color
    /\ \A i \in 1..Len(colors) :
           colors[i].count =
               Cardinality({k \in 1..Len(svgElement) :
                               NormFill(svgElement[k]) = colors[i].color})

\* C28 (as claimed): the palette of the mounted editor is consistent with
\* the document (no two entries carry the same color, and the count of each
\* entry is the number of elements whose normalized fill is its color), and
\* every changeColor and replaceAllColors call keeps it consistent.
C28_PaletteConsistent ==
    /\ PaletteConsistent
    /\ [][(/\ PaletteConsistent
           /\ \/ \E a, b \in ColorArgs : ChangeColor(a, b)
              \/ \E b \in ColorArgs : ReplaceAllColors(b))
          => PaletteConsistent']_vars

\* --------------------------------------------- bulk colour change: properties
\* the number of elements of a document that carry the colour
Carrying(elems, c) ==
    Cardinality({i \in 1..Len(elems) :
        LET f0 == FillOf(elems[i])
        IN  NormalizedOf[IF f0 = <<>> \/ f0 = Str_none
                         THEN Str_000000 ELSE f0] = c})

\* C12 (as claimed): a bulk colour change reports per document: the
\* documents reported as changed are those that contained the from colour,
\* a document that is not well-formed is reported as an error, and every
\* well-formed document is stored recoloured.
C12_PerDocumentResults ==
    [][(Len(toasts') > Len(toasts) /\ bulkFromColor # <<>> /\ bulkToColor # <<>>)
        => LET t    == toasts'[Len(toasts')]
               bad  == {i \in SuccessResults : ~CurrentSVG(i).wellFormed}
               with == {i \in SuccessResults \ bad :
                           Carrying(CurrentSVG(i).elems,
                                    NormalizedOf[bulkFromColor]) > 0}
           IN  /\ bad # {} => t.kind = "error"
               /\ t.kind = "success" => t.count = Cardinality(with)
               /\ \A i \in SuccessResults \ bad :
                      /\ i \in DOMAIN editedSVGs'
                      /\ editedSVGs'[i].elems =
                             bulkRecolor(CurrentSVG(i).elems,
                                         NormalizedOf[bulkFromColor],
                                         NormalizedOf[bulkToColor])]_vars

\* C29 (as claimed): recolor operations on one result compose: a changeColor
\* call of the editor and a bulk colour change each recolor the current SVG
\* of the result (editedSVGs[id], or result.svg before any change) and
\* store the outcome as its current SVG, so no earlier recolor is lost.
C29_RecolorsCompose ==
    [][/\ \A a, b \in ColorArgs :
            (ChangeColor(a, b) /\ OnSVGChange) =>
                editedSVGs'[1].elems =
                    [i \in 1..Len(CurrentSVG(1).elems) |->
                        IF NormFill(CurrentSVG(1).elems[i]) = a
                        THEN [CurrentSVG(1).elems[i] EXCEPT !.fill = b]
                        ELSE CurrentSVG(1).elems[i]]
       /\ (ApplyBulkColorChange /\ toasts'[Len(toasts')].kind = "success") =>
                editedSVGs'[1].elems =
                    [i \in 1..Len(CurrentSVG(1).elems) |->
                        IF NormFill(CurrentSVG(1).elems[i])
                               = NormalizedOf[bulkFromColor]
                        THEN [CurrentSVG(1).elems[i] EXCEPT
                                 !.fill = NormalizedOf[bulkToColor]]
                        ELSE CurrentSVG(1).elems[i]]]_vars

\* C30: no two entries of the results list of the page have the same file
\* id, whatever convert-start actions and queue completions happened.
C30_OneResultPerFile ==
    \A i, j \in 1..Len(toolResults) :
        i # j => toolResults[i].id # toolResults[j].id

\* ------------------------------------------------ normalizeColor: properties
UpperHexChars == {"0", "1", "2", "3", "4", "5", "6", "7", "8", "9",
                  "A", "B", "C", "D", "E", "F"}
\* v matches ^#[0-9A-F]{6}$
IsColorValue(v) ==
    /\ Len(v) = 7
    /\ v[1] = "#"
    /\ \A i \in 2..7 : v[i] \in UpperHexChars

\* C13 (as claimed): normalizeColor returns, for every input string, a
\* string that matches ^#[0-9A-F]{6}$.
C13_TotalSixDigitHex ==
    normalized # <<>> => IsColorValue(normalized[1])

\* C14 (as claimed): normalizeColor applied to its own result returns that
\* result again.
C14_Idempotent ==
    Len(normalized) >= 2 => normalized[2] = normalized[1]

\* --------------------------------------------- path interpreter: properties
\* The normalized commands of a path written from well-formed commands:
\* every argument group of a command gives one command with absolute
\* coordinates, H/h and V/v give a lineTo, Q/q gives a curveTo (of which
\* only the end point is fixed here), Z/z closes the subpath and returns
\* to its start.  st holds the current point, the start of the subpath and
\* the commands so far.
GroupSize(cmd) ==
    CASE cmd \in {"M", "m", "L", "l"} -> 2
      [] cmd \in {"H", "h", "V", "v"} -> 1
      [] cmd \in {"Q", "q"} -> 4
      [] cmd \in {"C", "c"} -> 6
      [] OTHER -> 0

ExpectedGroup(cmd, a, st) ==
    LET rel == cmd \in {"m", "l", "h", "v", "q", "c"}
        ax(v) == IF rel THEN st.x + v ELSE v
        ay(v) == IF rel THEN st.y + v ELSE v
    IN  CASE cmd \in {"M", "m"} ->
               [x |-> ax(a[1]), y |-> ay(a[2]), sx |-> ax(a[1]), sy |-> ay(a[2]),
                out |-> Append(st.out, [op |-> "m", exact |-> TRUE,
                            args |-> <<Num(ax(a[1])), Num(ay(a[2]))>>])]
          [] cmd \in {"L", "l"} ->
               [st EXCEPT !.x = ax(a[1]), !.y = ay(a[2]),
                   !.out = Append(@, [op |-> "l", exact |-> TRUE,
                            args |-> <<Num(ax(a[1])), Num(ay(a[2]))>>])]
          [] cmd \in {"H", "h"} ->
               [st EXCEPT !.x = ax(a[1]),
                   !.out = Append(@, [op |-> "l", exact |-> TRUE,
                            args |-> <<Num(ax(a[1])), Num(st.y)>>])]
          [] cmd \in {"V", "v"} ->
               [st EXCEPT !.y = ay(a[1]),
                   !.out = Append(@, [op |-> "l", exact |-> TRUE,
                            args |-> <<Num(st.x), Num(ay(a[1]))>>])]
          [] cmd \in {"Q", "q"} ->
               [st EXCEPT !.x = ax(a[3]), !.y = ay(a[4]),
                   !.out = Append(@, [op |-> "c", exact |-> FALSE,
                            args |-> <<Num(ax(a[3])), Num(ay(a[4]))>>])]
          [] OTHER ->
               [st EXCEPT !.x = ax(a[5]), !.y = ay(a[6]),
                   !.out = Append(@, [op |-> "c", exact |-> TRUE,
                            args |-> <<Num(ax(a[1])), Num(ay(a[2])),
                                       Num(ax(a[3])), Num(ay(a[4])),
                                       Num(ax(a[5])), Num(ay(a[6]))>>])]

RECURSIVE ExpectedFrom(_, _, _, _)
ExpectedFrom(segs, k, i, st) ==
    IF k > Len(segs) THEN st.out
    ELSE LET cmd == segs[k].cmd
             n   == GroupSize(cmd)
         IN  IF cmd \in {"Z", "z"}
             THEN ExpectedFrom(segs, k + 1, 1,
                      [st EXCEPT !.x = st.sx, !.y = st.sy,
                          !.out = Append(@, [op |-> "h", exact |-> TRUE,
                                             args |-> <<>>])])
             ELSE IF i > Len(segs[k].args)
             THEN ExpectedFrom(segs, k + 1, 1, st)
             ELSE ExpectedFrom(segs, k, i + n,
                      ExpectedGroup(cmd, SubSeq(segs[k].args, i, i + n - 1), st))

Expected(segs) ==
    ExpectedFrom(segs, 1, 1, [x |-> 0, y |-> 0, sx |-> 0, sy |-> 0, out |-> <<>>])

WellFormed(segs) == \A k \in 1..Len(segs) : segs[k].ok

SameCommand(o, e) ==
    /\ o.op = e.op
    /\ IF e.exact THEN o.args = e.args
       ELSE /\ Len(o.args) >= 2
            /\ SubSeq(o.args, Len(o.args) - 1, Len(o.args)) = e.args

NumOps(out, op) == Cardinality({i \in 1..Len(out) : out[i].op = op})

\* the commands out[i..] are among the commands exp[j..], in their order
RECURSIVE Embeds(_, _, _, _)
Embeds(out, i, exp, j) ==
    IF i > Len(out) THEN TRUE
    ELSE IF j > Len(exp) THEN FALSE
    ELSE IF SameCommand(out[i], exp[j]) THEN Embeds(out, i + 1, exp, j + 1)
    ELSE Embeds(out, i, exp, j + 1)

\* C15 (as claimed): every command the interpreter emits for a path written
\* from well-formed commands has absolute coordinates, the current point
\* being carried across relative commands and repeated argument groups:
\* the emitted commands are normalized commands of the path, in order.
C15_AbsoluteCoordinates ==
    (pathStage = "emitted" /\ WellFormed(pathSegs)) =>
        Embeds(pdfCommands, 1, Expected(pathSegs), 1)

\* C16 (as claimed): no command of a well-formed path is dropped: the
\* output has a lineTo for every L, H and V argument group and a curveTo
\* for every C and Q argument group of the input.
C16_NoCommandDropped ==
    (pathStage = "emitted" /\ WellFormed(pathSegs)) =>
        /\ NumOps(pdfCommands, "l") = NumOps(Expected(pathSegs), "l")
        /\ NumOps(pdfCommands, "c") = NumOps(Expected(pathSegs), "c")

\* C17 (as claimed): for a path with a command whose argument list is not
\* numeric or does not fill its groups, the interpreter returns no command
\* list and emits nothing: it fails.
C17_FailsOnBadArguments ==
    ~WellFormed(pathSegs) => (pathStage = "input" /\ pdfCommands = <<>>)

\* C27 (as claimed): after a closePath (Z or z) of a well-formed path the
\* current point of the interpreter is the start point of the subpath just
\* closed, that is the point of the last moveTo written before it.
C27_CloseReturnsToStart ==
    (pathStage = "emitted" /\ WellFormed(pathSegs)) =>
        \A k \in 1..Len(pathCommands) :
            pathCommands[k].cmd \in {"Z", "z"} =>
                LET st == Commands(SubSeq(pathCommands, 1, k), 1,
                                   [x |-> Num(0), y |-> Num(0), out |-> <<>>])
                    ms == {i \in 1..Len(st.out) : st.out[i].op = "m"}
                IN  ms # {} => <<st.x, st.y>> = st.out[SetMax(ms)].args

\* the color-set triple of the normalized fill of el (black when el has
\* no fill), each component over 255
FillTriple(el) ==
    LET rgb == hexToRGB(normalizeColor(IF el.fill = <<>> THEN Str_000000
                                       ELSE el.fill))
    IN  <<Over255(rgb.r), Over255(rgb.g), Over255(rgb.b)>>
FilledTags == {"rect", "circle", "path"}
DrawingOps == {"re", "m", "l", "c", "h", "f"}
PdfFiles   == {f \in downloads : f.format = "pdf"}

\* C18: in every print-vector file written for a well-formed document, each
\* drawing operation of a filled element (rect, circle, path) comes after a
\* color-set operation of that element whose triple is the element's
\* normalized fill color, component by component over 255.
C18_ColorSetBeforeDrawing ==
    exportContent.wellFormed =>
        \A f \in PdfFiles :
            \A k \in 1..Len(f.body) :
                (/\ f.body[k].op \in DrawingOps
                 /\ exportContent.elems[f.body[k].el].tag \in FilledTags)
                => \E j \in 1..(k - 1) :
                      /\ f.body[j].op = "rg"
                      /\ f.body[j].el = f.body[k].el
                      /\ f.body[j].args =
                             FillTriple(exportContent.elems[f.body[k].el])

\* the elements a file has lines or entities for
EmittedIn(f) == {f.body[k].el : k \in 1..Len(f.body)}
VectorFiles == {f \in downloads : f.format \in {"pdf", "dxf"}}

\* C19: for every print-vector or CAD file written for a well-formed
\* document, the number of elements emitted plus skippedCount is the number
\* of drawable elements of the document.  Neither emitter keeps a count of
\* the elements it skipped: skippedCount is 0.
C19_EmittedPlusSkipped ==
    exportContent.wellFormed =>
        \A f \in VectorFiles :
            Cardinality(EmittedIn(f)) + 0 = Len(exportContent.elems)

\* C20: when the markup of the document cannot be parsed, no print-vector
\* or CAD file is written for it and neither export is reported as
\* successful.
C20_UnparsableMarkupAborts ==
    ~exportContent.wellFormed =>
        /\ VectorFiles = {}
        /\ \A t \in exportToasts :
              t.what \in {"pdf", "dxf"} => t.kind # "success"

\* the points of the commands a path is written from
PointsOf(d) ==
    LET cmds == pathCommandsToPDF(parseSVGPath(d))
    IN  {<<cmds[k].args[1].v, cmds[k].args[2].v>> :
            k \in {j \in 1..Len(cmds) : cmds[j].op \in {"m", "l"}}}

\* C21: a CAD file written for a well-formed document consists of the
\* header section, the entities section and the end-of-file marker, in
\* this order; the entities section holds exactly one entity for each
\* drawable of the document, in document order, and the entity of a path
\* joins two points of that path, in document coordinates.
C21_OneEntityPerDrawable ==
    exportContent.wellFormed =>
        \A f \in {g \in downloads : g.format = "dxf"} :
            /\ f.sections = <<"HEADER", "ENTITIES", "EOF">>
            /\ Len(f.body) = Len(exportContent.elems)
            /\ \A k \in 1..Len(f.body) :
                  /\ f.body[k].el = k
                  /\ exportContent.elems[k].tag = "path" =>
                        {<<f.body[k].args[1], f.body[k].args[2]>>,
                         <<f.body[k].args[4], f.body[k].args[5]>>}
                            \subseteq PointsOf(exportContent.elems[k].d)
====
